---- MODULE Spec2Model ----
(***************************************************************************)
(* Model of the two pieces of reusable logic of the repository:            *)
(*   - chunk_text        (src/app_with_themes.py, lines 18-38)              *)
(*   - apply_corrections (src/grammar_checker.py, lines 191-203)            *)
(* A Python str is modelled as a sequence of one-character strings, and    *)
(* Python's 0-based indices and slice semantics are kept.                  *)
(***************************************************************************)
EXTENDS Integers, Sequences, FiniteSets, TLC

VARIABLES
    \* ---- one call of chunk_text ----
    raw,            \* the argument `text` as passed by the caller
    max_chars,      \* the argument `max_chars`
    text,           \* the local `text` after line 19
    chunks,         \* the local list `chunks`
    start,          \* the local `start`
    end,            \* the local `end` of the last iteration
    last_punct,     \* the local `last_punct` of the last iteration
    cut,            \* the local `cut` of the last iteration
    merged,         \* the local list `merged`
    mi,             \* position of the `for ch in chunks` loop (1-based, next item)
    result,         \* the returned list
    exc,            \* the exception the call ended with ("none": no exception)
    pc,             \* control point of the call
    \* ---- one call of apply_corrections ----
    base_text,          \* the argument `text`
    corrections,        \* the argument `corrections`
    sorted_corrections, \* the local `sorted_corrections`
    corrected,          \* the local `corrected`; the returned value once apc = "done"
    ai,                 \* position of the `for corr in sorted_corrections` loop
    aexc,               \* the exception the call ended with ("none": no exception)
    apc,                \* control point of the call
    \* ---- the grammar checker page (src/grammar_checker.py) ----
    checked_text,        \* st.session_state.checked_text
    session_corrections, \* st.session_state.corrections
    corrected_text,      \* st.session_state.corrected_text
    button,              \* the button that started the last run of the script
    input_text,          \* the text area's value in the last run
    auto_correct,        \* the checkbox "Auto-apply first suggestion"
    show_categories,     \* the multiselect "Show Error Types"
    engine               \* what tool.check returns for each text (fixed)

cvars == <<raw, max_chars, text, chunks, start, end, last_punct, cut,
           merged, mi, result, exc, pc>>

avars == <<base_text, corrections, sorted_corrections, corrected, ai, aexc, apc>>

svars == <<checked_text, session_corrections, corrected_text, button,
           input_text, auto_correct, show_categories, engine>>

vars == <<cvars, avars, svars>>

----------------------------------------------------------------------------
(* Bounds of the model *)

\* longest raw text of the exhaustively enumerated inputs
MaxLen == 4

\* largest max_chars tried on the exhaustively enumerated inputs
MaxChars == 3

\* iterations explored of a windowing loop that cannot end (max_chars < 1)
MaxSpin == 3

\* largest offset of an enumerated correction
MaxOffset == 3

\* longest enumerated list of corrections
MaxCorr == 2

----------------------------------------------------------------------------
(* Python str helpers *)

Min(a, b) == IF a <= b THEN a ELSE b

Max(a, b) == IF a >= b THEN a ELSE b

\* characters str.split() and str.strip() treat as whitespace
Whitespace == {" ", "\n", "\t"}

\* s[a:b] with Python's clamping and negative-index rules
PySlice(s, a, b) ==
    LET n  == Len(s)
        lo == IF a < 0 THEN Max(a + n, 0) ELSE Min(a, n)
        hi == IF b < 0 THEN Max(b + n, 0) ELSE Min(b, n)
    IN  IF lo >= hi THEN <<>> ELSE SubSeq(s, lo + 1, hi)

\* s.rfind(ch): 0-based index of the last occurrence, or -1
RFind(s, ch) ==
    LET hits == {i \in 1..Len(s) : s[i] = ch}
    IN  IF hits = {} THEN -1
        ELSE (CHOOSE i \in hits : \A j \in hits : j <= i) - 1

RECURSIVE LStrip(_)
LStrip(s) ==
    IF s # <<>> /\ s[1] \in Whitespace THEN LStrip(Tail(s)) ELSE s

RECURSIVE RStrip(_)
RStrip(s) ==
    IF s # <<>> /\ s[Len(s)] \in Whitespace
    THEN RStrip(SubSeq(s, 1, Len(s) - 1)) ELSE s

\* s.strip()
Strip(s) == RStrip(LStrip(s))

\* s.split(): the maximal runs of non-whitespace characters, in order
RECURSIVE Split(_)
Split(s) ==
    LET t == LStrip(s)
    IN  IF t = <<>> THEN <<>>
        ELSE LET stops == {i \in 1..Len(t) : t[i] \in Whitespace}
                 wl    == IF stops = {} THEN Len(t)
                          ELSE (CHOOSE i \in stops : \A j \in stops : i <= j) - 1
             IN  <<SubSeq(t, 1, wl)>> \o Split(SubSeq(t, wl + 1, Len(t)))

\* sep.join(parts)
RECURSIVE Join(_, _)
Join(sep, parts) ==
    IF parts = <<>> THEN <<>>
    ELSE IF Len(parts) = 1 THEN parts[1]
    ELSE parts[1] \o sep \o Join(sep, Tail(parts))

----------------------------------------------------------------------------
(* apply_corrections, src/grammar_checker.py:191-203 *)

\* mutant of SortedByOffsetDesc: the corrections are not sorted
Unsorted(cs) == cs

\* mutant of SortedByOffsetDesc: reverse=True is missing (ascending, stable)
RECURSIVE SortedByOffsetAsc(_)
SortedByOffsetAsc(cs) ==
    IF cs = <<>> THEN <<>>
    ELSE LET c    == cs[Len(cs)]
             init == SortedByOffsetAsc(SubSeq(cs, 1, Len(cs) - 1))
             keep == {i \in 1..Len(init) : init[i].offset <= c.offset}
             k    == Cardinality(keep)
         IN  SubSeq(init, 1, k) \o <<c>> \o SubSeq(init, k + 1, Len(init))

\* line 194: sorted(corrections, key=lambda x: x['offset'], reverse=True).
\* sorted() is stable, and with reverse=True items of equal key keep their
\* input order.
RECURSIVE SortedByOffsetDesc(_)
SortedByOffsetDesc(cs) ==
    IF cs = <<>> THEN <<>>
    ELSE LET c    == cs[Len(cs)]
             init == SortedByOffsetDesc(SubSeq(cs, 1, Len(cs) - 1))
             keep == {i \in 1..Len(init) : init[i].offset >= c.offset}
             k    == Cardinality(keep)
         IN  SubSeq(init, 1, k) \o <<c>> \o SubSeq(init, k + 1, Len(init))

\* mutant of ApplyOne: the last suggestion is applied instead of the first
ApplyOneLastSuggestion(cur, corr) ==
    IF corr.replacements # <<>>
    THEN LET st == corr.offset
             e  == st + corr.length
         IN  PySlice(cur, 0, st) \o corr.replacements[Len(corr.replacements)]
                \o PySlice(cur, e, Len(cur))
    ELSE cur

\* lines 198-201: the body of the loop for one correction
ApplyOne(cur, corr) ==
    IF corr.replacements # <<>>
    THEN LET st == corr.offset
             e  == st + corr.length
         IN  PySlice(cur, 0, st) \o corr.replacements[1] \o PySlice(cur, e, Len(cur))
    ELSE cur

\* lines 196-203 as a function of the sorted list
RECURSIVE ApplyAll(_, _)
ApplyAll(cur, scs) ==
    IF scs = <<>> THEN cur ELSE ApplyAll(ApplyOne(cur, scs[1]), Tail(scs))

\* the whole function
apply_corrections(t, cs) == ApplyAll(t, SortedByOffsetDesc(cs))

\* the suggestion lists of the enumerated corrections: none, one, two
Suggestions == { <<>>, << <<"X">> >>, << <<"Y", "Y">>, <<"Z">> >> }

SpanLengths == {0, 1, 2}

Corrections ==
    [offset : 0..MaxOffset, length : SpanLengths, replacements : Suggestions]

CorrectionLists == UNION {[1..n -> Corrections] : n \in 0..MaxCorr}

Corr(o, l, r) == [offset |-> o, length |-> l, replacements |-> <<r>>]

CatText == <<"T","h","e"," ","c","a","t"," ","s","a","t",".">>

\* the scenarios of the specification
ScenarioInputs ==
    { << <<>>, <<>> >>,
      << CatText, <<Corr(4, 3, <<"d","o","g">>)>> >>,
      << <<"a","b","c">>, <<Corr(5, 1, <<"x">>)>> >>,
      << <<"a","b","c","d","e","f","g","h">>,
         <<Corr(0, 3, <<"X">>), Corr(5, 2, <<"Y","Y">>)>> >>,
      << <<"a","b","c","d","e","f","g","h">>,
         <<Corr(5, 2, <<"Y","Y">>), Corr(0, 3, <<"X">>)>> >> }

\* base text of the enumerated inputs
BaseTexts == { <<"a", "b", "c">> }

ApplyInputs ==
    {<<b, cs>> : b \in BaseTexts, cs \in CorrectionLists} \cup ScenarioInputs

\* the apply_corrections variables while no call is modelled
AIdle ==
    /\ base_text = <<>>
    /\ corrections = <<>>
    /\ sorted_corrections = <<>>
    /\ corrected = <<>>
    /\ ai = 1
    /\ aexc = "none"
    /\ apc = "idle"

\* the grammar checker page while it is not modelled
SIdle ==
    /\ checked_text = <<>>
    /\ session_corrections = <<>>
    /\ corrected_text = <<>>
    /\ button = "none"
    /\ input_text = <<>>
    /\ auto_correct = FALSE
    /\ show_categories = {}
    /\ engine = <<>>

----------------------------------------------------------------------------
(* chunk_text, src/app_with_themes.py:18-38 *)

\* the threshold of the merge pass (line 34)
MergeThreshold == 200

\* line 19: text = " ".join(text.split())
Normalize(s) == Join(<<" ">>, Split(s))

\* mutant of WindowEnd: the window is not clipped to the text
WindowEndUnclipped(st, mc, t) == st + mc

\* mutant of WindowEnd: the window is one character too wide
WindowEndOffByOne(st, mc, t) == Min(st + mc + 1, Len(t))

\* line 23: end = min(start + max_chars, len(text))
WindowEnd(st, mc, t) == Min(st + mc, Len(t))

\* line 25: last_punct = max(slice_.rfind("."), slice_.rfind("?"), slice_.rfind("!"))
LastPunct(slice) ==
    Max(RFind(slice, "."), Max(RFind(slice, "?"), RFind(slice, "!")))

\* mutant of CutAt: the test `end == len(text)` is missing
CutAtIgnoringEnd(st, e, lp, t) ==
    IF lp = -1 THEN e ELSE st + lp + 1

\* lines 26-29: the cut position
CutAt(st, e, lp, t) ==
    IF lp = -1 \/ e = Len(t) THEN e ELSE st + lp + 1

\* line 30: the segment appended to chunks
Segment(t, st, c) == Strip(PySlice(t, st, c))

\* mutant of MergeStep: every segment starts a new accumulated segment
MergeStepAlwaysNew(m, ch) == Append(m, ch)

\* mutant of MergeStep: the test `len(ch) < 200` is missing
MergeStepNoThreshold(m, ch) ==
    IF m # <<>>
    THEN [m EXCEPT ![Len(m)] = @ \o <<" ">> \o ch]
    ELSE Append(m, ch)

\* lines 34-37: one iteration of the merge pass
MergeStep(m, ch) ==
    IF m # <<>> /\ Len(ch) < MergeThreshold
    THEN [m EXCEPT ![Len(m)] = @ \o <<" ">> \o ch]
    ELSE Append(m, ch)

\* line 38: [c for c in merged if c]
RECURSIVE NonEmpty(_)
NonEmpty(m) ==
    IF m = <<>> THEN <<>>
    ELSE IF m[1] # <<>> THEN <<m[1]>> \o NonEmpty(Tail(m))
    ELSE NonEmpty(Tail(m))

\* n copies of the character c
Rep(c, n) == [i \in 1..n |-> c]

\* the text of Scenario A
HelloText ==
    <<"H","e","l","l","o"," ","w","o","r","l","d","."," ",
      "T","h","i","s"," ","i","s"," ","a"," ","t","e","s","t","."," ",
      "S","h","o","r","t",".">>

\* characters of the exhaustively enumerated raw texts
ChunkAlphabet == {"a", ".", "?", " ", "\n"}

ShortTexts == UNION {[1..n -> ChunkAlphabet] : n \in 0..MaxLen}

\* longer inputs: the scenario of the specification, and texts around the
\* merge threshold and the default budget
LongInputs ==
    { <<HelloText, 15>>,
      <<HelloText, 900>>,
      <<<<" ", "\n">> \o HelloText \o <<"\n", "\n">> \o HelloText \o <<" ">>, 900>>,
      <<<<>>, 900>>,
      <<<<"a", "!", "b", " ", "c">>, 3>>,
      <<Rep("a", 200) \o <<".", " ">> \o Rep("b", 200) \o <<".">>, 202>>,
      <<Rep("a", 199) \o <<".", " ">> \o Rep("b", 198) \o <<".">>, 201>>,
      <<Rep("a", 230), 10>>,
      <<Rep("a", 205) \o <<".">> \o Rep("b", 8) \o <<".">> \o Rep("c", 203), 210>> }

ChunkInputs ==
    {<<t, m>> : t \in ShortTexts, m \in (-1)..MaxChars} \cup LongInputs

ChunkInit ==
    /\ \E in \in ChunkInputs : raw = in[1] /\ max_chars = in[2]
    /\ text = raw
    /\ chunks = <<>>
    /\ start = 0
    /\ end = 0
    /\ last_punct = -1
    /\ cut = 0
    /\ merged = <<>>
    /\ mi = 1
    /\ result = <<>>
    /\ exc = "none"
    /\ pc = "entry"
    /\ AIdle
    /\ SIdle

\* lines 19-21
ChunkEntry ==
    /\ pc = "entry"
    /\ text' = Normalize(raw)
    /\ chunks' = <<>>
    /\ start' = 0
    /\ pc' = "while"
    /\ UNCHANGED <<raw, max_chars, end, last_punct, cut, merged, mi, result, exc>>

\* lines 22-31: one iteration of the windowing loop
ChunkWindow ==
    /\ pc = "while"
    /\ start < Len(text)
    \* with max_chars < 1 the loop never ends: only MaxSpin iterations are explored
    /\ max_chars >= 1 \/ Len(chunks) < MaxSpin
    /\ LET e  == WindowEnd(start, max_chars, text)
           lp == LastPunct(PySlice(text, start, e))
           c  == CutAt(start, e, lp, text)
       IN  /\ end' = e
           /\ last_punct' = lp
           /\ cut' = c
           /\ chunks' = Append(chunks, Segment(text, start, c))
           /\ start' = c
    /\ UNCHANGED <<raw, max_chars, text, merged, mi, result, exc, pc>>

\* line 22 false, line 32
ChunkWindowExit ==
    /\ pc = "while"
    /\ ~(start < Len(text))
    /\ merged' = <<>>
    /\ mi' = 1
    /\ pc' = "merge"
    /\ UNCHANGED <<raw, max_chars, text, chunks, start, end, last_punct, cut, result, exc>>

\* lines 33-37: one iteration of the merge pass
ChunkMerge ==
    /\ pc = "merge"
    /\ mi <= Len(chunks)
    /\ merged' = MergeStep(merged, chunks[mi])
    /\ mi' = mi + 1
    /\ UNCHANGED <<raw, max_chars, text, chunks, start, end, last_punct, cut, result, exc, pc>>

\* line 38
ChunkReturn ==
    /\ pc = "merge"
    /\ mi > Len(chunks)
    /\ result' = NonEmpty(merged)
    /\ pc' = "done"
    /\ UNCHANGED <<raw, max_chars, text, chunks, start, end, last_punct, cut, merged, mi, exc>>

ChunkNext ==
    \/ ChunkEntry /\ UNCHANGED <<avars, svars>>
    \/ ChunkWindow /\ UNCHANGED <<avars, svars>>
    \/ ChunkWindowExit /\ UNCHANGED <<avars, svars>>
    \/ ChunkMerge /\ UNCHANGED <<avars, svars>>
    \/ ChunkReturn /\ UNCHANGED <<avars, svars>>

SpecChunk == ChunkInit /\ [][ChunkNext]_vars

----------------------------------------------------------------------------
(* one call of apply_corrections *)

\* the chunk_text variables while no call is modelled
CIdle ==
    /\ raw = <<>>
    /\ max_chars = 900
    /\ text = <<>>
    /\ chunks = <<>>
    /\ start = 0
    /\ end = 0
    /\ last_punct = -1
    /\ cut = 0
    /\ merged = <<>>
    /\ mi = 1
    /\ result = <<>>
    /\ exc = "none"
    /\ pc = "idle"

ApplyInit ==
    /\ \E in \in ApplyInputs : base_text = in[1] /\ corrections = in[2]
    /\ sorted_corrections = <<>>
    /\ corrected = <<>>
    /\ ai = 1
    /\ aexc = "none"
    /\ apc = "entry"
    /\ CIdle
    /\ SIdle

\* lines 194-196
ApplyEntry ==
    /\ apc = "entry"
    /\ sorted_corrections' = SortedByOffsetDesc(corrections)
    /\ corrected' = base_text
    /\ ai' = 1
    /\ apc' = "for"
    /\ UNCHANGED <<base_text, corrections, aexc>>

\* lines 197-201: one iteration
ApplyStep ==
    /\ apc = "for"
    /\ ai <= Len(sorted_corrections)
    /\ corrected' = ApplyOne(corrected, sorted_corrections[ai])
    /\ ai' = ai + 1
    /\ UNCHANGED <<base_text, corrections, sorted_corrections, aexc, apc>>

\* line 203
ApplyReturn ==
    /\ apc = "for"
    /\ ai > Len(sorted_corrections)
    /\ apc' = "done"
    /\ UNCHANGED <<base_text, corrections, sorted_corrections, corrected, ai, aexc>>

ApplyNext ==
    \/ ApplyEntry /\ UNCHANGED <<cvars, svars>>
    \/ ApplyStep /\ UNCHANGED <<cvars, svars>>
    \/ ApplyReturn /\ UNCHANGED <<cvars, svars>>

SpecApply == ApplyInit /\ [][ApplyNext]_vars

----------------------------------------------------------------------------
(* Properties of chunk_text, checked under SpecChunk *)

Punctuation == {".", "?", "!"}

\* the call returned, and its precondition max_chars >= 1 held
Returned == pc = "done" /\ max_chars >= 1

\* sub occurs in s as a contiguous run of characters
IsSubstring(sub, s) ==
    \E i \in 0..(Len(s) - Len(sub)) : SubSeq(s, i + 1, i + Len(sub)) = sub

RECURSIVE SumTo(_, _)
SumTo(g, n) == IF n = 0 THEN 0 ELSE g[n] + SumTo(g, n - 1)

\* C1: chunk_text("Hello world. This is a test. Short.", max_chars=15)
\* returns exactly ["Hello world. This is a test. Short."].
C1_ScenarioA ==
    (pc = "done" /\ raw = HelloText /\ max_chars = 15) => result = <<HelloText>>

\* C2: chunk coverage: for max_chars >= 1 the returned segments, joined in
\* order with single spaces and with whitespace runs collapsed, are exactly the
\* whitespace-normalized input: nothing lost, duplicated or inserted.
C2_Coverage ==
    Returned => Normalize(Join(<<" ">>, result)) = Normalize(raw)

\* C4: a call with max_chars < 1 is rejected at entry with InvalidParameter:
\* it appends no segment, and it does not return without that error.
C4_InvalidParameter ==
    max_chars < 1 =>
        /\ chunks = <<>>
        /\ pc = "done" => exc = "InvalidParameter"

\* C7 (as claimed): every returned segment is one pre-merge segment with at
\* most one short pre-merge segment appended, so it is no longer than
\* max_chars + 1 + 199.
C7_OneShortTail ==
    Returned =>
        \A i \in 1..Len(result) :
            /\ Len(result[i]) <= max_chars + 1 + (MergeThreshold - 1)
            /\ \E j \in 1..Len(chunks) :
                \/ result[i] = chunks[j]
                \/ /\ j < Len(chunks)
                   /\ Len(chunks[j + 1]) < MergeThreshold
                   /\ result[i] = chunks[j] \o <<" ">> \o chunks[j + 1]

\* C7 (amended): every returned segment is one pre-merge segment with zero or
\* more short (< 200 characters) pre-merge segments appended, each after one
\* space, the returned segments using up the pre-merge list in order; with k
\* segments appended its length is at most max_chars + k * 200.
C7_MergedTails ==
    Returned =>
        \E g \in [1..Len(result) -> 1..Max(Len(chunks), 1)] :
            /\ SumTo(g, Len(result)) = Len(chunks)
            /\ \A i \in 1..Len(result) :
                LET first == SumTo(g, i - 1) + 1
                    last  == SumTo(g, i)
                IN  /\ result[i] = Join(<<" ">>, SubSeq(chunks, first, last))
                    /\ \A j \in (first + 1)..last : Len(chunks[j]) < MergeThreshold
                    /\ Len(result[i]) <= max_chars + (g[i] - 1) * MergeThreshold

\* C7 witness: a returned segment longer than max_chars plus one short tail
C7_Witness ==
    /\ Returned
    /\ \E i \in 1..Len(result) : Len(result[i]) > max_chars + MergeThreshold
    /\ Len(chunks) > 2

\* C8: every returned segment is a contiguous substring of the
\* whitespace-normalized input text.
C8_Substring ==
    Returned => \A i \in 1..Len(result) : IsSubstring(result[i], Normalize(raw))

\* C9: for max_chars >= 1, a text that is empty after normalization (empty,
\* or whitespace only) yields no segment, and a text whose normalized form is
\* non-empty and shorter than max_chars yields that form as the only segment.
C9_ShortText ==
    Returned =>
        /\ (\A i \in 1..Len(raw) : raw[i] \in Whitespace) => result = <<>>
        /\ text = <<>> => result = <<>>
        /\ (text # <<>> /\ Len(text) < max_chars) => result = <<text>>

\* C9 witness: a short text with punctuation inside it came back whole, and
\* normalization changed it
C9_Witness ==
    /\ Returned
    /\ text # <<>> /\ Len(text) < max_chars
    /\ \E i \in 1..(Len(text) - 1) : text[i] \in Punctuation
    /\ text # raw
    /\ result = <<text>>

\* C10: for max_chars >= 1, every iteration of the windowing loop appends one
\* segment of at most max_chars characters, and a cut that is not at the
\* window end is immediately after the last '.', '?' or '!' of the window
\* [start, start + max_chars).
C10_PreMergeBound ==
    [][(pc = "while" /\ pc' = "while" /\ max_chars >= 1) =>
        LET seg    == chunks'[Len(chunks')]
            window == {i \in start..(start + max_chars - 1) :
                          i < Len(text) /\ text[i + 1] \in Punctuation}
        IN  /\ Len(chunks') = Len(chunks) + 1
            /\ Len(seg) <= max_chars
            /\ cut' # Min(start + max_chars, Len(text)) =>
                  /\ (cut' - 1) \in window
                  /\ \A i \in window : i <= cut' - 1]_vars

\* C10 witness: the loop cut at punctuation inside the window, short of the
\* window end, after an earlier iteration
C10_Witness ==
    /\ pc = "while" /\ max_chars >= 1
    /\ Len(chunks) >= 2
    /\ cut < end
    /\ last_punct >= 1
    /\ Len(chunks[Len(chunks)]) = last_punct + 1

\* C12: in the merge pass a segment shorter than 200 characters is appended,
\* after one space, to the last accumulated segment whenever there is one, and
\* only the first segment starts an accumulated segment while shorter than
\* 200: the accumulated list has one item for the first segment and one for
\* each later segment of 200 characters or more, and spells the segments
\* joined by single spaces. So every returned segment but the first has at
\* least 200 characters, and for max_chars < 200 at most one is returned.
C12_MergeRule ==
    /\ pc \in {"merge", "done"} =>
        LET n    == mi - 1
            long == {j \in 2..n : Len(chunks[j]) >= MergeThreshold}
        IN  /\ Len(merged) = IF n = 0 THEN 0 ELSE 1 + Cardinality(long)
            /\ Join(<<" ">>, merged) = Join(<<" ">>, SubSeq(chunks, 1, n))
            /\ \A k \in 2..Len(merged) : Len(merged[k]) >= MergeThreshold
    /\ pc = "done" =>
        /\ \A i \in 2..Len(result) : Len(result[i]) >= MergeThreshold
        /\ max_chars < MergeThreshold => Len(result) <= 1

\* C12 witness: two segments were returned, a short pre-merge segment having
\* been appended to one of them
C12_Witness ==
    /\ pc = "done"
    /\ Len(result) = 2
    /\ Len(chunks) > 2
    /\ \E j \in 2..Len(chunks) : Len(chunks[j]) < MergeThreshold

\* C13: for max_chars >= 1 every iteration of the windowing loop strictly
\* increases start (cut > start) without passing the end of the text, so
\* that after any step the loop has made at most len(text) iterations, and it
\* is left with start = len(text).
C13_Termination ==
    [][max_chars >= 1 =>
        /\ (pc = "while" /\ pc' = "while") =>
              (start < cut' /\ start' = cut' /\ start' <= Len(text))
        /\ pc' = "while" => (Len(chunks') <= start' /\ start' <= Len(text'))
        /\ pc' \in {"merge", "done"} =>
              (start' = Len(text') /\ Len(chunks') <= Len(text'))]_vars

\* C13 witness: the loop ended after as many iterations as the text has
\* characters, more than one
C13_Witness ==
    /\ max_chars >= 1
    /\ pc = "merge"
    /\ start = Len(text)
    /\ Len(chunks) = Len(text)
    /\ Len(text) > 2

----------------------------------------------------------------------------
(* Properties of apply_corrections, checked under SpecApply *)

\* the span of c lies inside the base text
InRange(c) == c.offset + c.length <= Len(base_text)

AllInRange == \A i \in 1..Len(corrections) : InRange(corrections[i])

\* the half-open ranges [offset, offset + length) of c and d share a position
Overlap(c, d) ==
    Max(c.offset, d.offset) < Min(c.offset + c.length, d.offset + d.length)

NonOverlapping ==
    \A i, j \in 1..Len(corrections) :
        i < j => ~Overlap(corrections[i], corrections[j])

DistinctOffsets ==
    \A i, j \in 1..Len(corrections) :
        i < j => corrections[i].offset # corrections[j].offset

\* every correction carries a replacement text
AllSuggest == \A i \in 1..Len(corrections) : corrections[i].replacements # <<>>

Perms(n) == {p \in [1..n -> 1..n] : \A i, j \in 1..n : p[i] = p[j] => i = j}

Permuted(cs, p) == [i \in 1..Len(cs) |-> cs[p[i]]]

\* the corrections in increasing order of offset (offsets distinct)
ByOffset(cs) ==
    LET p == CHOOSE q \in Perms(Len(cs)) :
                 \A i, j \in 1..Len(cs) : i < j => cs[q[i]].offset < cs[q[j]].offset
    IN  Permuted(cs, p)

\* the spans, taken in increasing order of offset, do not run into the next one
OrderedSpans ==
    LET asc == ByOffset(corrections)
    IN  \A i \in 1..(Len(asc) - 1) : asc[i].offset + asc[i].length <= asc[i + 1].offset

\* base from position pos on, with each span of asc (increasing offsets)
\* replaced by its replacement text, built from left to right
RECURSIVE Patched(_, _, _)
Patched(base, asc, pos) ==
    IF asc = <<>> THEN SubSeq(base, pos + 1, Len(base))
    ELSE SubSeq(base, pos + 1, asc[1].offset)
            \o asc[1].replacements[1]
            \o Patched(base, Tail(asc), asc[1].offset + asc[1].length)

\* C3: when a supplied replacement has offset + length > len(base_text), the
\* call fails with OutOfRange and returns no text.
C3_OutOfRange ==
    (/\ apc = "done"
     /\ \E i \in 1..Len(corrections) :
            corrections[i].replacements # <<>> /\ ~InRange(corrections[i]))
        => aexc = "OutOfRange"

\* C5 (as claimed): for in-range replacements with pairwise non-overlapping
\* half-open ranges (zero-length ranges and shared offsets included), every
\* permutation of the input list gives the same output.
C5_OrderIndependence ==
    (apc = "done" /\ AllInRange /\ NonOverlapping) =>
        \A p \in Perms(Len(corrections)) :
            apply_corrections(base_text, Permuted(corrections, p)) = corrected

\* C5 (amended): for in-range replacements with pairwise non-overlapping
\* half-open ranges and pairwise distinct offsets, every permutation of the
\* input list gives the same output.
C5_DistinctOffsets ==
    (apc = "done" /\ AllInRange /\ NonOverlapping /\ DistinctOffsets) =>
        \A p \in Perms(Len(corrections)) :
            apply_corrections(base_text, Permuted(corrections, p)) = corrected

\* C5 witness: two applicable replacements given in increasing order of
\* offset, so that the sort has to reorder them, were both applied
C5_Witness ==
    /\ apc = "done" /\ AllInRange /\ NonOverlapping /\ DistinctOffsets /\ AllSuggest
    /\ Len(corrections) >= 2
    /\ corrections[1].offset < corrections[2].offset
    /\ corrections[1].length > 0
    /\ Len(corrected) # Len(base_text)

\* C6: for in-range replacements with distinct offsets whose spans, ordered
\* by offset, satisfy offset_i + length_i <= offset_(i+1), the output is the
\* base text with each span replaced by its replacement text and everything
\* else kept in order; with no replacement the output is the base text.
C6_Patched ==
    apc = "done" =>
        /\ (AllInRange /\ DistinctOffsets /\ AllSuggest /\ OrderedSpans) =>
               corrected = Patched(base_text, ByOffset(corrections), 0)
        /\ corrections = <<>> => corrected = base_text
        /\ (base_text = CatText /\ corrections = <<Corr(4, 3, <<"d","o","g">>)>>) =>
               corrected = <<"T","h","e"," ","d","o","g"," ","s","a","t",".">>

\* C6 witness: Scenario E, given lowest offset first, returned "XdeYYh"
C6_Witness ==
    /\ apc = "done"
    /\ Len(base_text) = 8
    /\ Len(corrections) = 2 /\ corrections[1].offset = 0
    /\ corrected = <<"X", "d", "e", "Y", "Y", "h">>

\* correction i of the input list is applied before correction j: it has the
\* higher offset, or the same offset and comes first in the list
AppliedBefore(i, j) ==
    \/ corrections[i].offset > corrections[j].offset
    \/ corrections[i].offset = corrections[j].offset /\ i < j

\* every span ends at or before the offset of each replacement applied
\* before it
EndsBeforeEarlier ==
    \A i, j \in 1..Len(corrections) :
        (i # j /\ AppliedBefore(i, j)) =>
            corrections[j].offset + corrections[j].length <= corrections[i].offset

\* the loop is about to apply a replacement: the working text still equals the
\* base text on [0, offset + length) of that replacement
SpanUntouched ==
    (apc = "for" /\ ai <= Len(sorted_corrections)
        /\ sorted_corrections[ai].replacements # <<>>) =>
        LET e == sorted_corrections[ai].offset + sorted_corrections[ai].length
        IN  /\ e <= Len(corrected)
            /\ SubSeq(corrected, 1, e) = SubSeq(base_text, 1, e)

RECURSIVE Suggesting(_)
Suggesting(cs) ==
    IF cs = <<>> THEN <<>>
    ELSE IF cs[1].replacements # <<>> THEN <<cs[1]>> \o Suggesting(Tail(cs))
    ELSE Suggesting(Tail(cs))

\* cs has distinct offsets and, in increasing order of offset, each span ends
\* at or before the next offset
Ordered(cs) ==
    /\ \A i, j \in 1..Len(cs) : i < j => cs[i].offset # cs[j].offset
    /\ \A i, j \in 1..Len(cs) :
          cs[i].offset < cs[j].offset => cs[i].offset + cs[i].length <= cs[j].offset

\* C14: each issue with a non-empty suggestion list has its span replaced by
\* its first suggestion only, an issue with an empty suggestion list changes
\* nothing, so with all suggestion lists empty the output is the input text;
\* the call changes neither its input text nor its corrections list.
C14_TopSuggestion ==
    [][/\ base_text' = base_text
       /\ corrections' = corrections
       /\ (apc = "for" /\ apc' = "for") =>
             LET c  == sorted_corrections[ai]
                 n  == Len(corrected)
                 lo == Min(c.offset, n)
                 hi == Min(c.offset + c.length, n)
             IN  IF c.replacements = <<>>
                 THEN corrected' = corrected
                 ELSE corrected' = SubSeq(corrected, 1, lo) \o c.replacements[1]
                                      \o SubSeq(corrected, hi + 1, n)
       /\ apc' = "done" =>
             /\ Suggesting(corrections) = <<>> => corrected' = base_text
             /\ (AllInRange /\ Ordered(Suggesting(corrections))) =>
                   corrected' = Patched(base_text, ByOffset(Suggesting(corrections)), 0)
      ]_vars

\* C14 witness: an issue with two suggestions and an issue with none were
\* given, and the text came back with the first suggestion in place
C14_Witness ==
    /\ apc = "done"
    /\ Len(corrections) = 2
    /\ corrections[1].replacements = <<>>
    /\ corrections[1].offset > corrections[2].offset
    /\ Len(corrections[2].replacements) = 2
    /\ corrections[2].length = 1 /\ corrections[2].offset = 1
    /\ corrected = <<"a", "Y", "Y", "c">>

----------------------------------------------------------------------------
(* The grammar checker page, src/grammar_checker.py: session state
   (lines 141-147) and the button handlers (lines 310-312, 345-370).  One
   action is one run of the script, started by one button. *)

\* line 311: sample_text
SampleText ==
    <<"T","h","i","s"," ","i","s"," ","a"," ","s","a","m","p","l","e"," ",
      "t","e","x","t"," ","w","i","t","h"," ","s","o","m","e"," ","e","r",
      "o","r","s","."," ","I","t"," ","c","o","n","t","a","i","n"," ","g",
      "r","a","m","m","a","r"," ","m","i","s","t","a","k","e","s"," ","a",
      "n","d"," ","s","p","e","l","l","i","n","g"," ","p","r","o","b","l",
      "e","m","s","."," ","T","h","e"," ","A","I"," ","g","r","a","m","m",
      "a","r"," ","c","h","e","c","k","e","r"," ","w","i","l","l"," ","h",
      "e","l","p","s"," ","y","o","u"," ","f","i","x"," ","t","h","i","s",
      " ","i","s","s","u","e","s","."," ","Y","o","u"," ","c","a","n"," ",
      "s","e","e"," ","a","l","l"," ","t","h","e"," ","s","u","g","g","e",
      "s","t","i","o","n","'","s"," ","a","n","d"," ","a","p","p","l","y",
      " ","t","h","e","m"," ","t","o"," ","i","m","p","r","o","v","e"," ",
      "y","o","u","'","r","e"," ","w","r","i","t","i","n","g","."," ","I",
      "t","s"," ","a"," ","p","o","w","e","r","f","u","l"," ","t","o","o",
      "l"," ","f","o","r"," ","w","r","i","t","e","r","s",","," ","s","t",
      "u","d","e","n","t","s"," ","a","n","d"," ","p","r","o","f","e","s",
      "s","i","o","n","a","l","s",".">>

AbcText == <<"a", "b", "c">>

\* rule ids and categories of the grammar engine, as Python strings
RuleSpelling == <<"M","O","R","F","O","L","O","G","I","K","_","R","U","L","E","_","E","N","_","U","S">>

RuleAgreement == <<"H","E","_","V","E","R","B","_","A","G","R">>

RuleCasing == <<"U","P","P","E","R","C","A","S","E","_","S","E","N","T","E","N","C","E","_","S","T","A","R","T">>

CatTypos == <<"T","Y","P","O","S">>

CatGrammar == <<"G","R","A","M","M","A","R">>

CatCasing == <<"C","A","S","I","N","G">>

\* a match object of the engine, with the attributes check_grammar reads
Match(rule, cat, off, len, repl) ==
    [ruleId |-> rule, category |-> cat, offset |-> off, errorLength |-> len,
     replacements |-> repl]

\* what the engine may return for "abc" and for the sample text
AbcMatches ==
    { <<>>,
      <<Match(RuleSpelling, CatTypos, 1, 1, << <<"X">> >>)>>,
      <<Match(RuleAgreement, CatGrammar, 0, 1,
              << <<"Y", "Y">>, <<"Z">>, <<"W">>, <<"V">> >>),
        Match(RuleCasing, CatCasing, 2, 1, <<>>)>> }

SampleMatches ==
    { <<>>,
      <<Match(RuleSpelling, CatTypos, 32, 5, << <<"e","r","r","o","r","s">> >>),
        Match(RuleAgreement, CatGrammar, 42, 7,
              << <<"c","o","n","t","a","i","n","s">> >>)>> }

\* the engine is deterministic: one list of matches per text
Engines ==
    {[t \in {AbcText, SampleText} |-> IF t = AbcText THEN a ELSE b] :
        a \in AbcMatches, b \in SampleMatches}

\* lines 154-167
categorize_error(rule_id, category) ==
    IF IsSubstring(<<"S","P","E","L","L">>, rule_id)
          \/ IsSubstring(<<"M","O","R","F","O","L","O","G","I","K">>, rule_id)
    THEN "Spelling"
    ELSE IF IsSubstring(<<"P","U","N","C","T">>, rule_id)
          \/ IsSubstring(<<"C","O","M","M","A">>, rule_id)
    THEN "Punctuation"
    ELSE IF IsSubstring(<<"G","R","A","M","M","A","R">>, rule_id)
          \/ category = <<"G","R","A","M","M","A","R">>
    THEN "Grammar"
    ELSE IF IsSubstring(<<"S","T","Y","L","E">>, rule_id)
          \/ category = <<"S","T","Y","L","E">>
    THEN "Style"
    ELSE IF IsSubstring(<<"T","Y","P","O">>, rule_id)
    THEN "Typo"
    ELSE "Other"

\* lines 169-189, for the matches tool.check returned
check_grammar(matches) ==
    [i \in 1..Len(matches) |->
        [offset       |-> matches[i].offset,
         length       |-> matches[i].errorLength,
         replacements |-> PySlice(matches[i].replacements, 0, 3),
         type         |-> categorize_error(matches[i].ruleId, matches[i].category),
         rule_id      |-> matches[i].ruleId]]

\* line 360: [c for c in corrections if c['type'] in show_categories]
RECURSIVE FilterCategories(_, _)
FilterCategories(cs, shown) ==
    IF cs = <<>> THEN <<>>
    ELSE IF cs[1].type \in shown THEN <<cs[1]>> \o FilterCategories(Tail(cs), shown)
    ELSE FilterCategories(Tail(cs), shown)

\* lines 265-266: the error types of the multiselect
AllCategories == {"Spelling", "Grammar", "Punctuation", "Style", "Typo", "Other"}

\* the selections tried
CategoryChoices == {AllCategories, AllCategories \ {"Spelling"}, {"Grammar"}}

\* the texts typed into the text area
TypedTexts == {<<>>, <<" ">>, <<"\n", " ">>, AbcText, SampleText}

\* lines 141-147, and the widgets' defaults (lines 263-274)
SessionInit ==
    /\ checked_text = <<>>
    /\ session_corrections = <<>>
    /\ corrected_text = <<>>
    /\ button = "none"
    /\ input_text = <<>>
    /\ auto_correct = FALSE
    /\ show_categories = AllCategories
    /\ engine \in Engines
    /\ CIdle
    /\ AIdle

\* lines 310-312: the run started by "Load Sample Text"; the text area then
\* shows the new checked_text (line 317)
LoadSample ==
    /\ button' = "load"
    /\ checked_text' = SampleText
    /\ input_text' = SampleText
    /\ UNCHANGED <<session_corrections, corrected_text, auto_correct,
                   show_categories, engine>>

\* lines 345-349: the run started by "Clear"
Clear ==
    /\ button' = "clear"
    /\ checked_text' = <<>>
    /\ session_corrections' = <<>>
    /\ corrected_text' = <<>>
    /\ input_text' = <<>>
    /\ UNCHANGED <<auto_correct, show_categories, engine>>

\* lines 351-370: the run started by "Check Grammar", with the text area,
\* checkbox and multiselect as the user left them
Check ==
    \E t \in TypedTexts, ac \in BOOLEAN, sc \in CategoryChoices :
        /\ button' = "check"
        /\ input_text' = t
        /\ auto_correct' = ac
        /\ show_categories' = sc
        /\ IF Strip(t) # <<>>
           THEN LET found == FilterCategories(check_grammar(engine[t]), sc)
                IN  /\ checked_text' = t
                    /\ session_corrections' = found
                    /\ corrected_text' =
                          IF ac THEN apply_corrections(t, found) ELSE t
           ELSE UNCHANGED <<checked_text, session_corrections, corrected_text>>
        /\ UNCHANGED engine

SessionNext ==
    \/ LoadSample /\ UNCHANGED <<cvars, avars>>
    \/ Clear /\ UNCHANGED <<cvars, avars>>
    \/ Check /\ UNCHANGED <<cvars, avars>>

SpecSession == SessionInit /\ [][SessionNext]_vars

----------------------------------------------------------------------------
(* Properties of the grammar checker page, checked under SpecSession *)

\* the stored corrections are empty or the category-filtered issues of the
\* stored checked_text, and the stored corrected_text is empty, checked_text,
\* or checked_text with the stored corrections applied
Coherent ==
    /\ \/ session_corrections = <<>>
       \/ /\ checked_text \in DOMAIN engine
          /\ \E sc \in SUBSET AllCategories :
                session_corrections =
                    FilterCategories(check_grammar(engine[checked_text]), sc)
    /\ \/ corrected_text = <<>>
       \/ corrected_text = checked_text
       \/ corrected_text = apply_corrections(checked_text, session_corrections)

\* C15: after any sequence of Load Sample Text, Check Grammar and Clear runs
\* the session state is coherent; Clear leaves the three fields empty and a
\* Check with blank input changes none of them.
C15_SessionCoherence ==
    [][/\ Coherent'
       /\ button' = "clear" =>
             (checked_text' = <<>> /\ session_corrections' = <<>>
                 /\ corrected_text' = <<>>)
       /\ (button' = "check" /\ Strip(input_text') = <<>>) =>
             UNCHANGED <<checked_text, session_corrections, corrected_text>>
      ]_vars

====
